---- MODULE Spec2Model ----
(***************************************************************************)
(* The recommendation edge function of growwise-advisor: the serve handler *)
(* (cache lookup, required-field check, retry loop around the completion   *)
(* endpoint, response extraction, category / top-pick repair, cache write, *)
(* response after the attempts are used up).                               *)
(*                                                                         *)
(* The source holds two revisions of the handler that have a cache and a   *)
(* retry loop: src/unnamed/part_000 lines 41-428 and src/unnamed/part_001  *)
(* lines 41-379.  They differ in the repair (part_001 appends the standard *)
(* categories) and in the response after the last failed attempt (part_000 *)
(* returns fallback data, part_001 a 500 error).  The variable handler     *)
(* says which revision is deployed; it never changes.                      *)
(***************************************************************************)
EXTENDS Integers, Sequences, FiniteSets, TLC

VARIABLES
    handler,        \* which revision of the serve handler runs
    API_KEY,        \* TRUE iff GEMINI_API_KEY is set (non-empty)
    clock,          \* Date.now(), in milliseconds
    ticks,          \* number of clock advances so far (bounds the model)
    started,        \* number of requests received so far (bounds the model)
    cache,          \* the module-level cache object: key -> {data, timestamp}
    pc,             \* per request: where its handler invocation is suspended
    method,         \* per request: req.method
    cancelled,      \* per request: the caller has aborted its call of the function
    client,         \* the hook: its revision and the farmData object it was given
    waterInInches,  \* the handler's local waterInInches for the object the hook sent
    revision,       \* which revision of the hook useGeminiAI the component uses
    isMounted,      \* the component that uses the hook is mounted
    loading,        \* the hook's state loading
    hookError,      \* the hook's state error
    retryCount,     \* the hook's state retryCount
    abortControllerRef, \* abortControllerRef.current
    aborted,        \* the controllers whose signal is aborted
    responseCache,  \* the keys of the hook's response caches
    activation,     \* per call of getCropRecommendations: where it is suspended
    cropCategories, \* the result the page displays
    farmProfiles,   \* the provider's state farmProfiles
    currentProfile, \* the provider's state currentProfile
    profilesLoading, \* the provider's state loading
    localStorage,   \* localStorage.getItem("farmProfiles")
    farmData,       \* per request: the body of the request
    attemptCount,   \* per request: the local attemptCount
    lastError,      \* per request: the local lastError
    calls,          \* per request: how often fetch() was invoked for it
    wakeAt,         \* per request: when the backoff timer resolves
    deadline,       \* per request: when the attempt's abort timer fires
    timers,         \* per request: the armed abort timers, each with its attempt
    out,            \* per request: the Response the handler returned
    parsed,         \* normalizer development: the parsed object
    normalized      \* normalizer development: the outcome of the repair

\* the state of the hook and of the page that calls it
hookVars == <<revision, isMounted, loading, hookError, retryCount, abortControllerRef,
              aborted, responseCache, activation, cropCategories>>

\* the state of the profile provider
storeVars == <<farmProfiles, currentProfile, profilesLoading, localStorage>>

\* the state the attempt loop of the serve handler does not touch
outside == <<client, waterInInches, hookVars, storeVars>>

\* the state of the serve handler and of the repair
serverVars == <<handler, API_KEY, clock, ticks, started, cache, pc, method, cancelled,
                farmData, attemptCount, lastError, calls, wakeAt, deadline, timers,
                out, parsed, normalized>>

vars == <<serverVars, outside>>

-----------------------------------------------------------------------------
(* Bounds of the model *)

MaxCrops == 3       \* longest crop list of a single-category parsed object
MaxCats == 2        \* longest category list of a multi-category parsed object
MaxScore == 2       \* scores of generated crops are 1..MaxScore (or missing)
MaxTicks == 3       \* clock advances per behaviour
MaxRequests == 2    \* requests received per behaviour
NumReqs == 2        \* request slots (concurrent handler invocations)

Handlers == {"part_000", "part_001"}

-----------------------------------------------------------------------------
(* Parsed model responses.  A crop is a record of the two fields the repair *)
(* reads: score (a number, or NoScore when the field is missing) and        *)
(* isTopPick ("true", "false", or "absent" when the field is missing).      *)
(* A category is null, or an object with a type and a crops field that is   *)
(* a list, missing/falsy ("absent") or a truthy non-list ("nonlist").       *)

NoScore == -1

Crop(score, isTopPick) == [score |-> score, isTopPick |-> isTopPick]

Category(type, crops) ==
    [isNull |-> FALSE, type |-> type, cropsKind |-> "list", crops |-> crops]

CategoryNoCrops(type) ==
    [isNull |-> FALSE, type |-> type, cropsKind |-> "absent", crops |-> <<>>]

CategoryBadCrops(type) ==
    [isNull |-> FALSE, type |-> type, cropsKind |-> "nonlist", crops |-> <<>>]

NullCategory ==
    [isNull |-> TRUE, type |-> "", cropsKind |-> "absent", crops |-> <<>>]

standardCategories ==
    << "Grains & Cereals", "Legumes & Pulses", "Vegetables",
       "Root Crops & Tubers", "Fruits & Berries", "Oil & Fiber Crops",
       "Specialty & High-Value Crops" >>

\* JavaScript truthiness of crop.isTopPick
Truthy(isTopPick) == isTopPick = "true"

\* JavaScript a > b on scores: false when either side is undefined
JsGreater(a, b) == a # NoScore /\ b # NoScore /\ a > b

-----------------------------------------------------------------------------
(* Schema repair: the body of the inner try block of the serve handler *)

\* A parsed JSON object, reduced to its categories field: a list, missing or
\* falsy ("absent"), or a truthy value that is no array ("nonlist").
Parsed(categories) == [categoriesKind |-> "list", categories |-> categories]

ParsedNoCategories == [categoriesKind |-> "absent", categories |-> <<>>]

ParsedBadCategories == [categoriesKind |-> "nonlist", categories |-> <<>>]

\* the callback of category.crops.map: a flagged crop is cleared when an
\* earlier crop of the list was flagged, every other crop is returned as is
KeepFlagAlways(crop, hasTopPick) == crop

KeepOrClear(crop, hasTopPick) ==
    IF Truthy(crop.isTopPick) /\ hasTopPick
    THEN [crop EXCEPT !.isTopPick = "false"]
    ELSE crop

\* category.crops.map(...) with the closure variable hasTopPick, element by
\* element from index i on; st = [crops |-> mapped so far, hasTopPick |-> flag]
RECURSIVE ScanTopPick(_, _, _)
ScanTopPick(crops, i, st) ==
    IF i > Len(crops) THEN st
    ELSE ScanTopPick(crops, i + 1,
            [crops |-> Append(st.crops, KeepOrClear(crops[i], st.hasTopPick)),
             hasTopPick |-> st.hasTopPick \/ Truthy(crops[i].isTopPick)])

\* the reducer (prev, current) => (prev.score > current.score) ? prev : current
\* on indices of the crop list
KeepPrevOnTie(crops, prev, current) ==
    IF ~JsGreater(crops[current].score, crops[prev].score) THEN prev ELSE current

Reducer(crops, prev, current) ==
    IF JsGreater(crops[prev].score, crops[current].score) THEN prev ELSE current

\* category.crops.reduce(reducer) without initial value: starts from the first
\* element and visits the others in order; returns the index of the crop chosen
RECURSIVE ReduceFrom(_, _, _)
ReduceFrom(crops, i, prev) ==
    IF i > Len(crops) THEN prev
    ELSE ReduceFrom(crops, i + 1, Reducer(crops, prev, i))

highestScoringCrop(crops) == ReduceFrom(crops, 2, 1)

\* if (!hasTopPick && category.crops.length > 0)
DefaultAlways(hasTopPick, crops) == Len(crops) > 0

NeedsDefault(hasTopPick, crops) == ~hasTopPick /\ Len(crops) > 0

\* the top-pick repair of one crop list
RepairCrops(crops) ==
    LET st == ScanTopPick(crops, 1, [crops |-> <<>>, hasTopPick |-> FALSE])
    IN  IF NeedsDefault(st.hasTopPick, st.crops)
        THEN [st.crops EXCEPT ![highestScoringCrop(st.crops)].isTopPick = "true"]
        ELSE st.crops

\* does the callback of parsedResponse.categories.map throw on this category?
\* reading .crops of null throws; calling .map on a truthy non-array throws
RepairThrows(category) == category.isNull \/ category.cropsKind = "nonlist"

RepairCategoryUntouched(category) ==
    Category(category.type,
             IF category.cropsKind = "absent" THEN <<>> ELSE category.crops)

\* the callback of parsedResponse.categories.map on an element it accepts
RepairCategory(category) ==
    Category(category.type,
             RepairCrops(IF category.cropsKind = "absent" THEN <<>> ELSE category.crops))

\* the types that standardCategories.forEach pushes, in order
RECURSIVE MissingStandard(_, _)
MissingStandard(existingCategoryTypes, i) ==
    IF i > Len(standardCategories) THEN <<>>
    ELSE (IF standardCategories[i] \in existingCategoryTypes
          THEN <<>> ELSE << Category(standardCategories[i], <<>>) >>)
         \o MissingStandard(existingCategoryTypes, i + 1)

\* part_001 appends the missing standard categories; part_000 has no such step
AppendStandard(h, categories) ==
    IF h = "part_001"
    THEN categories \o MissingStandard({categories[i].type : i \in DOMAIN categories}, 1)
    ELSE categories

\* validation and repair of a parsed response by handler revision h:
\* [threw |-> TRUE] when an Error is thrown, else the repaired category list
Normalize(h, p) ==
    IF p.categoriesKind # "list"
        THEN [threw |-> TRUE, categories |-> <<>>]
    ELSE IF \E i \in DOMAIN p.categories : RepairThrows(p.categories[i])
        THEN [threw |-> TRUE, categories |-> <<>>]
    ELSE [threw |-> FALSE,
          categories |-> AppendStandard(h,
              [i \in DOMAIN p.categories |-> RepairCategory(p.categories[i])])]

-----------------------------------------------------------------------------
(* Bounded sets of parsed responses *)

Scores == 1..MaxScore

Flags == {"true", "false", "absent"}

Crops == {Crop(s, f) : s \in Scores \cup {NoScore}, f \in Flags}

\* one standard type and one type outside the standard list
InputTypes == {"Vegetables", "Cash Crops"}

\* the categories with at most one crop
SmallCategories ==
    {NullCategory}
    \cup {CategoryNoCrops(t) : t \in InputTypes}
    \cup {CategoryBadCrops(t) : t \in InputTypes}
    \cup {Category(t, <<>>) : t \in InputTypes}
    \cup {Category(t, <<c>>) : t \in InputTypes, c \in Crops}

\* p is a generated parsed object: one category with up to n crops, up to m
\* categories of at most one crop each, or no categories array at all
IsParsedObject(p, n, m) ==
    \/ p = ParsedNoCategories
    \/ p = ParsedBadCategories
    \/ \E t \in InputTypes, k \in 0..n : \E crops \in [1..k -> Crops] :
           p = Parsed(<< Category(t, crops) >>)
    \/ \E k \in 0..m : \E cs \in [1..k -> SmallCategories] : p = Parsed(cs)

-----------------------------------------------------------------------------
(* Requests, cache and responses of the serve handler *)

Reqs == 1..NumReqs

CACHE_TTL == 24 * 60 * 60 * 1000

maxAttempts == 3

AbortAfter == 25000

\* a request body: text that is no JSON ("invalid"), the JSON value null, or
\* a JSON object given by its fields in the order they appear in the text
ObjectBody(fields) == [kind |-> "object", fields |-> fields]

NullBody == [kind |-> "null", fields |-> <<>>]

InvalidBody == [kind |-> "invalid", fields |-> <<>>]

NoBody == [kind |-> "none", fields |-> <<>>]

FarmA ==
    ObjectBody(<< <<"location", "Nairobi">>, <<"soilType", "Loamy">>,
                  <<"waterAvailability", "rainfed">> >>)

\* the fields of FarmA in another order
FarmAReordered ==
    ObjectBody(<< <<"soilType", "Loamy">>, <<"location", "Nairobi">>,
                  <<"waterAvailability", "rainfed">> >>)

FarmNoSoil ==
    ObjectBody(<< <<"location", "Nairobi">>, <<"waterAvailability", "rainfed">> >>)

Bodies == {FarmA, FarmAReordered, FarmNoSoil, NullBody, InvalidBody}

Methods == {"POST", "OPTIONS"}

\* farmData.<name>: the value of the field, "" (falsy) when it is missing
Field(body, name) ==
    IF \E i \in DOMAIN body.fields : body.fields[i][1] = name
    THEN body.fields[CHOOSE i \in DOMAIN body.fields : body.fields[i][1] = name][2]
    ELSE ""

\* JSON.stringify(farmData): the fields in insertion order; null gives "null"
JSONstringify(body) ==
    IF body.kind = "null" THEN << <<"null", "">> >> ELSE body.fields

CacheKeys == {JSONstringify(b) : b \in Bodies \ {InvalidBody}}

NoEntry == [present |-> FALSE, data |-> <<>>, timestamp |-> 0]

Entry(data, timestamp) == [present |-> TRUE, data |-> data, timestamp |-> timestamp]

\* cache[cacheKey] && (now - cache[cacheKey].timestamp < CACHE_TTL)
CacheHitInclusive(c, cacheKey, now) ==
    c[cacheKey].present /\ now - c[cacheKey].timestamp <= CACHE_TTL

CacheHit(c, cacheKey, now) ==
    c[cacheKey].present /\ now - c[cacheKey].timestamp < CACHE_TTL

\* cache[cacheKey] = { data: parsedResponse, timestamp: Date.now() }
CacheWriteSkipped(c, cacheKey, data, now) == c

CacheWrite(c, cacheKey, data, now) == [c EXCEPT ![cacheKey] = Entry(data, now)]

\* !farmData.location || !farmData.soilType || !farmData.waterAvailability
MissingRequired(body) ==
    \/ Field(body, "location") = ""
    \/ Field(body, "soilType") = ""
    \/ Field(body, "waterAvailability") = ""

DelayFromZero(n) == (2 ^ (n - 1)) * 1000

\* Math.pow(2, attemptCount) * 1000
Delay(n) == (2 ^ n) * 1000

NoResponse == [status |-> 0, kind |-> "none", data |-> <<>>, error |-> ""]

ErrorResponse(status, kind, error) ==
    [status |-> status, kind |-> kind, data |-> <<>>, error |-> error]

CachedResponseEmpty(entry) ==
    [status |-> 200, kind |-> "cached", data |-> <<>>, error |-> ""]

\* new Response(JSON.stringify(cache[cacheKey].data))
CachedResponse(entry) ==
    [status |-> 200, kind |-> "cached", data |-> entry.data, error |-> ""]

\* new Response(JSON.stringify(parsedResponse))
FreshResponse(categories) ==
    [status |-> 200, kind |-> "fresh", data |-> categories, error |-> ""]

\* the hardcoded fallback data of part_000
FallbackCategories ==
    << Category("Grains & Cereals", << Crop(75, "true") >>),
       Category("Vegetables", << Crop(80, "true") >>),
       Category("Legumes & Pulses", << Crop(85, "true") >> ) >>

\* the response after the while loop: part_000 returns the fallback data with
\* the default status 200, part_001 an error body with status 500
ExhaustedResponse(h, error) ==
    IF h = "part_000"
    THEN [status |-> 200, kind |-> "fallback", data |-> FallbackCategories, error |-> ""]
    ELSE ErrorResponse(500, "exhausted_error", error)

-----------------------------------------------------------------------------
(* The serve handler as a state machine.  A handler invocation runs without *)
(* interruption between two awaits; pc names the await it is suspended at:  *)
(*   "body"      await req.json()                                           *)
(*   "fetching"  await fetch(...)                                           *)
(*   "errtext"   await response.text() of a non-ok response                 *)
(*   "reading"   await response.json()                                      *)
(*   "backoff"   await new Promise(resolve => setTimeout(resolve, delay))   *)
(*   "done"      the handler has returned its Response                      *)

\* parsed objects the completion endpoint answers with in the handler model
SampleParsed ==
    { Parsed(<< Category("Vegetables", << Crop(80, "true"), Crop(90, "true") >>) >>),
      Parsed(<< Category("Cash Crops", << Crop(70, "absent") >>),
                CategoryNoCrops("Vegetables") >>),
      Parsed(<< NullCategory >>),
      ParsedNoCategories }

\* what reading the response can end in besides a parsed object: response.json()
\* rejects, no text in the first candidate, no {...} span, JSON.parse throws
ReadFailures == {"body_not_json", "empty_text", "no_braces", "invalid_json"}

\* clock advances: one millisecond, or one millisecond less than the TTL
TickSteps == {1, CACHE_TTL - 1}

\* the awaits inside while (attemptCount < maxAttempts)
InLoop == {"fetching", "errtext", "reading", "backoff"}

\* the return of a Response by invocation r
Return(r, response) ==
    /\ pc' = [pc EXCEPT ![r] = "done"]
    /\ out' = [out EXCEPT ![r] = response]

\* setTimeout(() => controller.abort(), 25000) of one attempt: the timer
\* aborts the controller created in the same iteration
Timer(attempt, at) == [attempt |-> attempt, at |-> at]

\* clearTimeout(timeoutId) in the attempt the invocation is in, and the removal
\* of that attempt's timer when it fires
WithoutCurrentTimer(r) == {t \in timers[r] : t.attempt # calls[r]}

\* one iteration of while (attemptCount < maxAttempts) up to await fetch(...):
\* a new AbortController, its timer, and the call of the completion endpoint
StartAttempt(r) ==
    /\ pc' = [pc EXCEPT ![r] = "fetching"]
    /\ calls' = [calls EXCEPT ![r] = @ + 1]
    /\ deadline' = [deadline EXCEPT ![r] = clock + AbortAfter]
    /\ timers' = [timers EXCEPT ![r] = @ \cup {Timer(calls[r] + 1, clock + AbortAfter)}]
    /\ UNCHANGED out

AttemptFailedUncounted(r, error) ==
    /\ lastError' = [lastError EXCEPT ![r] = error]
    /\ attemptCount' = [attemptCount EXCEPT
                           ![r] = IF error = "missing_categories" THEN @ ELSE @ + 1]
    /\ IF attemptCount'[r] < maxAttempts
       THEN /\ pc' = [pc EXCEPT ![r] = "backoff"]
            /\ wakeAt' = [wakeAt EXCEPT ![r] = clock + Delay(attemptCount[r] + 1)]
            /\ UNCHANGED out
       ELSE /\ Return(r, ExhaustedResponse(handler, error))
            /\ UNCHANGED wakeAt

\* catch (attempt_error): count the attempt, then back off or leave the loop
\* and return the response of the handler revision
AttemptFailed(r, error) ==
    /\ lastError' = [lastError EXCEPT ![r] = error]
    /\ attemptCount' = [attemptCount EXCEPT ![r] = @ + 1]
    /\ IF attemptCount[r] + 1 < maxAttempts
       THEN /\ pc' = [pc EXCEPT ![r] = "backoff"]
            /\ wakeAt' = [wakeAt EXCEPT ![r] = clock + Delay(attemptCount[r] + 1)]
            /\ UNCHANGED out
       ELSE /\ Return(r, ExhaustedResponse(handler, error))
            /\ UNCHANGED wakeAt

ReceiveKeyUnchecked(r, m, body) ==
    /\ pc[r] = "idle"
    /\ started < MaxRequests
    /\ started' = started + 1
    /\ method' = [method EXCEPT ![r] = m]
    /\ IF m = "OPTIONS"
       THEN /\ Return(r, [status |-> 204, kind |-> "preflight", data |-> <<>>,
                          error |-> ""])
            /\ UNCHANGED farmData
       ELSE /\ pc' = [pc EXCEPT ![r] = "body"]
            /\ farmData' = [farmData EXCEPT ![r] = body]
            /\ UNCHANGED out
    /\ UNCHANGED <<handler, API_KEY, clock, ticks, cache, cancelled, timers, outside,
                   attemptCount,
                   lastError, calls, wakeAt, deadline, parsed, normalized>>

\* a request arrives: preflight, API key check, then await req.json(), whose
\* result is the local farmData
Receive(r, m, body) ==
    /\ pc[r] = "idle"
    /\ started < MaxRequests
    /\ started' = started + 1
    /\ method' = [method EXCEPT ![r] = m]
    /\ IF m = "OPTIONS"
       THEN /\ Return(r, [status |-> 204, kind |-> "preflight", data |-> <<>>,
                          error |-> ""])
            /\ UNCHANGED farmData
       ELSE IF ~API_KEY
       THEN /\ Return(r, ErrorResponse(500, "config_error", "API configuration error"))
            /\ UNCHANGED farmData
       ELSE /\ pc' = [pc EXCEPT ![r] = "body"]
            /\ farmData' = [farmData EXCEPT ![r] = body]
            /\ UNCHANGED out
    /\ UNCHANGED <<handler, API_KEY, clock, ticks, cache, cancelled, timers, outside,
                   attemptCount,
                   lastError, calls, wakeAt, deadline, parsed, normalized>>

BodyParsedPurging(r) ==
    /\ pc[r] = "body"
    /\ LET body == farmData[r]
           cacheKey == JSONstringify(body)
           now == clock
       IN  IF body.kind = "invalid"
           THEN /\ Return(r, ErrorResponse(400, "bad_body", "Invalid request body"))
                /\ UNCHANGED <<calls, deadline, timers, cache>>
           ELSE IF CacheHit(cache, cacheKey, now)
           THEN /\ Return(r, CachedResponse(cache[cacheKey]))
                /\ UNCHANGED <<calls, deadline, timers, cache>>
           ELSE /\ cache' = [cache EXCEPT ![cacheKey] = NoEntry]
                /\ IF body.kind = "null"
                   THEN /\ Return(r, ErrorResponse(500, "internal_error", "TypeError"))
                        /\ UNCHANGED <<calls, deadline, timers>>
                   ELSE IF MissingRequired(body)
                   THEN /\ Return(r, ErrorResponse(400, "missing_fields",
                                                   "Missing required farm data fields"))
                        /\ UNCHANGED <<calls, deadline, timers>>
                   ELSE StartAttempt(r)
    /\ UNCHANGED <<method, cancelled, outside>>
    /\ UNCHANGED <<handler, API_KEY, clock, ticks, started, farmData,
                   attemptCount, lastError, wakeAt, parsed, normalized>>

\* req.json() settles: bad body, cache lookup, required fields, first attempt
BodyParsed(r) ==
    /\ pc[r] = "body"
    /\ LET body == farmData[r]
           cacheKey == JSONstringify(body)
           now == clock
       IN  IF body.kind = "invalid"
           THEN /\ Return(r, ErrorResponse(400, "bad_body", "Invalid request body"))
                /\ UNCHANGED <<calls, deadline, timers>>
           ELSE IF CacheHit(cache, cacheKey, now)
           THEN /\ Return(r, CachedResponse(cache[cacheKey]))
                /\ UNCHANGED <<calls, deadline, timers>>
           ELSE IF body.kind = "null"
           THEN \* reading farmData.location of null throws: the outer catch
                /\ Return(r, ErrorResponse(500, "internal_error", "TypeError"))
                /\ UNCHANGED <<calls, deadline, timers>>
           ELSE IF MissingRequired(body)
           THEN /\ Return(r, ErrorResponse(400, "missing_fields",
                                           "Missing required farm data fields"))
                /\ UNCHANGED <<calls, deadline, timers>>
           ELSE StartAttempt(r)
    /\ UNCHANGED <<method, cancelled, outside>>
    /\ UNCHANGED <<handler, API_KEY, clock, ticks, started, cache, farmData,
                   attemptCount, lastError, wakeAt, parsed, normalized>>

\* fetch rejects with a transport error, the attempt's timer not yet past due
FetchRejects(r) ==
    /\ pc[r] = "fetching"
    /\ clock <= deadline[r]
    /\ AttemptFailed(r, "transport")
    /\ UNCHANGED <<method, cancelled, timers, outside>>
    /\ UNCHANGED <<handler, API_KEY, clock, ticks, started, cache, farmData, calls,
                   deadline, parsed, normalized>>

\* the attempt's timer fires while fetch is pending: controller.abort()
FetchAborted(r) ==
    /\ pc[r] = "fetching"
    /\ clock >= deadline[r]
    /\ AttemptFailed(r, "abort")
    /\ timers' = [timers EXCEPT ![r] = WithoutCurrentTimer(r)]
    /\ UNCHANGED <<method, cancelled, outside>>
    /\ UNCHANGED <<handler, API_KEY, clock, ticks, started, cache, farmData, calls,
                   deadline, parsed, normalized>>

\* fetch resolves with a response, the attempt's timer not yet past due;
\* clearTimeout; response.ok decides what is read
FetchResolves(r, ok) ==
    /\ pc[r] = "fetching"
    /\ clock <= deadline[r]
    /\ pc' = [pc EXCEPT ![r] = IF ok THEN "reading" ELSE "errtext"]
    /\ timers' = [timers EXCEPT ![r] = WithoutCurrentTimer(r)]
    /\ UNCHANGED <<method, cancelled, outside>>
    /\ UNCHANGED <<handler, API_KEY, clock, ticks, started, cache, farmData,
                   attemptCount, lastError, calls, wakeAt, deadline, out, parsed,
                   normalized>>

\* response.text() of a non-ok response settles; the handler throws
ErrorTextRead(r) ==
    /\ pc[r] = "errtext"
    /\ AttemptFailed(r, "http_error")
    /\ UNCHANGED <<method, cancelled, timers, outside>>
    /\ UNCHANGED <<handler, API_KEY, clock, ticks, started, cache, farmData, calls,
                   deadline, parsed, normalized>>

\* response.json() settles with a failure of the extraction
ReadFails(r, failure) ==
    /\ pc[r] = "reading"
    /\ AttemptFailed(r, failure)
    /\ UNCHANGED <<method, cancelled, timers, outside>>
    /\ UNCHANGED <<handler, API_KEY, clock, ticks, started, cache, farmData, calls,
                   deadline, parsed, normalized>>

ReadParsedAlwaysWrites(r, p) ==
    /\ pc[r] = "reading"
    /\ LET n == Normalize(handler, p)
       IN  /\ cache' = CacheWrite(cache, JSONstringify(farmData[r]),
                                  n.categories, clock)
           /\ IF n.threw
              THEN AttemptFailed(r, IF p.categoriesKind # "list"
                                    THEN "missing_categories" ELSE "repair_threw")
              ELSE /\ Return(r, FreshResponse(n.categories))
                   /\ UNCHANGED <<attemptCount, lastError, wakeAt>>
    /\ UNCHANGED <<method, cancelled, timers, outside>>
    /\ UNCHANGED <<handler, API_KEY, clock, ticks, started, farmData, calls,
                   deadline, parsed, normalized>>

\* response.json() settles and the text holds the JSON object p: validation,
\* repair, cache write and return, or a throw into catch (attempt_error)
ReadParsed(r, p) ==
    /\ pc[r] = "reading"
    /\ LET n == Normalize(handler, p)
       IN  IF n.threw
           THEN /\ AttemptFailed(r, IF p.categoriesKind # "list"
                                    THEN "missing_categories" ELSE "repair_threw")
                /\ UNCHANGED cache
           ELSE /\ cache' = CacheWrite(cache, JSONstringify(farmData[r]),
                                       n.categories, clock)
                /\ Return(r, FreshResponse(n.categories))
                /\ UNCHANGED <<attemptCount, lastError, wakeAt>>
    /\ UNCHANGED <<method, cancelled, timers, outside>>
    /\ UNCHANGED <<handler, API_KEY, clock, ticks, started, farmData, calls,
                   deadline, parsed, normalized>>

\* the backoff timer resolves: the next iteration of the while loop
BackoffElapsed(r) ==
    /\ pc[r] = "backoff"
    /\ clock >= wakeAt[r]
    /\ StartAttempt(r)
    /\ UNCHANGED <<method, cancelled, outside>>
    /\ UNCHANGED <<handler, API_KEY, clock, ticks, started, cache, farmData,
                   attemptCount, lastError, wakeAt, parsed, normalized>>

\* the Response has been sent; the slot can take the next request.  Timers of
\* the invocation that are still armed hold controllers no later invocation
\* can reach; they are followed no further.
Deliver(r) ==
    /\ pc[r] = "done"
    /\ pc' = [pc EXCEPT ![r] = "idle"]
    /\ method' = [method EXCEPT ![r] = "none"]
    /\ cancelled' = [cancelled EXCEPT ![r] = FALSE]
    /\ farmData' = [farmData EXCEPT ![r] = NoBody]
    /\ attemptCount' = [attemptCount EXCEPT ![r] = 0]
    /\ lastError' = [lastError EXCEPT ![r] = "none"]
    /\ calls' = [calls EXCEPT ![r] = 0]
    /\ wakeAt' = [wakeAt EXCEPT ![r] = 0]
    /\ deadline' = [deadline EXCEPT ![r] = 0]
    /\ timers' = [timers EXCEPT ![r] = {}]
    /\ out' = [out EXCEPT ![r] = NoResponse]
    /\ UNCHANGED <<handler, API_KEY, clock, ticks, started, cache, outside, parsed,
                   normalized>>

\* time passes
Tick(d) ==
    /\ ticks < MaxTicks
    /\ ticks' = ticks + 1
    /\ clock' = clock + d
    /\ UNCHANGED <<method, cancelled, timers, outside>>
    /\ UNCHANGED <<handler, API_KEY, started, cache, pc, farmData, attemptCount,
                   lastError, calls, wakeAt, deadline, out, parsed, normalized>>

StaleTimerAbortsFetch(r, t) ==
    /\ t \in timers[r]
    /\ clock >= t.at
    /\ ~(pc[r] = "fetching" /\ t.attempt = calls[r])
    /\ timers' = [timers EXCEPT ![r] = @ \ {t}]
    /\ IF pc[r] = "fetching"
       THEN AttemptFailed(r, "abort")
       ELSE UNCHANGED <<pc, attemptCount, lastError, wakeAt, out>>
    /\ UNCHANGED <<handler, API_KEY, clock, ticks, started, cache, method,
                   cancelled, farmData, calls, deadline, parsed, normalized, outside>>

\* a timer fires whose attempt is over (the fetch rejected, or the invocation
\* returned): it aborts the controller of that attempt, which no fetch uses
StaleTimerFires(r, t) ==
    /\ t \in timers[r]
    /\ clock >= t.at
    /\ ~(pc[r] = "fetching" /\ t.attempt = calls[r])
    /\ timers' = [timers EXCEPT ![r] = @ \ {t}]
    /\ UNCHANGED <<handler, API_KEY, clock, ticks, started, cache, pc, method,
                   cancelled, farmData, attemptCount, lastError, calls, wakeAt,
                   deadline, out, parsed, normalized, outside>>

NotNormalizing == [state |-> "none", categories |-> <<>>]

\* let waterInInches = ""
EmptyString == [form |-> "", value |-> <<>>]

\* no call of the hook is being looked at
NoClient == [hook |-> "none", given |-> <<>>, farmData |-> <<>>, conversions |-> 0]

\* calls of getCropRecommendations that may overlap
NumCalls == 2

Calls == 1..NumCalls

\* abortControllerRef.current is null, and the AbortController created by
\* the entry-th activation of a call
NoController == [call |-> 0, entry |-> 0]

Controller(c, entry) == [call |-> c, entry |-> entry]

\* the Map objects that serve as response cache: the one in the ref
\* (src/unnamed/part_004), or the one of the closure a call runs in
\* (src/unnamed/part_003, new Map() at every render)
Maps == {0} \cup Calls

\* a call that has not been made
NotCalled == [at |-> "idle", farmData |-> <<>>, retryCount |-> 0, invoked |-> 0,
              delay |-> 0, result |-> "pending"]

\* useState<CropCategory[]>([]) of the page
NoCategories == [call |-> 0, key |-> <<>>]

\* the state of the hook right after the first render
HookFresh ==
    /\ isMounted = TRUE
    /\ loading = FALSE
    /\ hookError = "null"
    /\ retryCount = 0
    /\ abortControllerRef = NoController
    /\ aborted = {}
    /\ responseCache = [m \in Maps |-> {}]
    /\ activation = [c \in Calls |-> NotCalled]
    /\ cropCategories = NoCategories

\* useState<FarmProfile | null>(null)
NoProfile == [id |-> 0]

\* localStorage holds no item farmProfiles
NoItem == [present |-> FALSE, value |-> <<>>]

\* the state of the provider after it mounted over an empty localStorage
StoreFresh ==
    /\ farmProfiles = <<>>
    /\ currentProfile = NoProfile
    /\ profilesLoading = FALSE
    /\ localStorage = NoItem

\* the hook is not in use, no prompt has been built and no profile is stored
OutsideIdle ==
    /\ client = NoClient
    /\ waterInInches = EmptyString
    /\ revision = "none"
    /\ HookFresh
    /\ StoreFresh

Init ==
    /\ handler \in Handlers
    /\ API_KEY \in BOOLEAN
    /\ clock = 0
    /\ ticks = 0
    /\ started = 0
    /\ cache = [k \in CacheKeys |-> NoEntry]
    /\ pc = [r \in Reqs |-> "idle"]
    /\ method = [r \in Reqs |-> "none"]
    /\ cancelled = [r \in Reqs |-> FALSE]
    /\ OutsideIdle
    /\ farmData = [r \in Reqs |-> NoBody]
    /\ attemptCount = [r \in Reqs |-> 0]
    /\ lastError = [r \in Reqs |-> "none"]
    /\ calls = [r \in Reqs |-> 0]
    /\ wakeAt = [r \in Reqs |-> 0]
    /\ deadline = [r \in Reqs |-> 0]
    /\ timers = [r \in Reqs |-> {}]
    /\ out = [r \in Reqs |-> NoResponse]
    /\ parsed = ParsedNoCategories
    /\ normalized = NotNormalizing

\* requests handled one after the other: one invocation at a time
Solo == {1}

Next ==
    \/ \E r \in Solo, m \in Methods, b \in Bodies : Receive(r, m, b)
    \/ \E r \in Solo : BodyParsed(r)
    \/ \E r \in Solo : FetchRejects(r)
    \/ \E r \in Solo : FetchAborted(r)
    \/ \E r \in Solo, ok \in BOOLEAN : FetchResolves(r, ok)
    \/ \E r \in Solo : ErrorTextRead(r)
    \/ \E r \in Solo, f \in ReadFailures : ReadFails(r, f)
    \/ \E r \in Solo, p \in SampleParsed : ReadParsed(r, p)
    \/ \E r \in Solo : BackoffElapsed(r)
    \/ \E r \in Solo : Deliver(r)
    \/ \E r \in Solo : \E t \in timers[r] : StaleTimerFires(r, t)
    \/ \E d \in TickSteps : Tick(d)

Spec == Init /\ [][Next]_vars

-----------------------------------------------------------------------------
(* The serve handler with a caller that gives up.  The hook aborts the       *)
(* controller of its call (on unmount, or when the next call starts) while   *)
(* the handler invocation is inside its attempt loop.  The handler creates   *)
(* its own AbortController per attempt and never reads the request's signal, *)
(* so the abort changes nothing the handler looks at.                        *)

\* abortControllerRef.current.abort() while invocation r is inside the loop
CallerCancels(r) ==
    /\ pc[r] \in InLoop
    /\ ~cancelled[r]
    /\ cancelled' = [cancelled EXCEPT ![r] = TRUE]
    /\ UNCHANGED <<handler, API_KEY, clock, ticks, started, cache, pc, method,
                   timers, outside, farmData, attemptCount, lastError, calls, wakeAt, deadline,
                   out, parsed, normalized>>

NextCancel ==
    \/ Next
    \/ \E r \in Solo : CallerCancels(r)

SpecCancel == Init /\ [][NextCancel]_vars

-----------------------------------------------------------------------------
(* Concurrent invocations of the serve handler.  The runtime runs one        *)
(* invocation per request on a single thread: an invocation runs from one    *)
(* await to the next without interruption, and the invocations of different  *)
(* requests interleave at their awaits.  All of them share the cache object. *)

\* the requests of the concurrent runs: POSTs of one body, with the API key set
InitConc == Init /\ API_KEY

\* the answers of the completion endpoint in the concurrent runs: two objects
\* the repair accepts (with different results) and one without categories
ConcParsed ==
    { Parsed(<< Category("Vegetables", << Crop(80, "true"), Crop(90, "true") >>) >>),
      Parsed(<< Category("Cash Crops", << Crop(70, "absent") >>),
                CategoryNoCrops("Vegetables") >>),
      ParsedNoCategories }

NextConc ==
    \/ \E r \in Reqs : Receive(r, "POST", FarmA)
    \/ \E r \in Reqs : BodyParsed(r)
    \/ \E r \in Reqs : FetchRejects(r)
    \/ \E r \in Reqs : FetchAborted(r)
    \/ \E r \in Reqs, ok \in BOOLEAN : FetchResolves(r, ok)
    \/ \E r \in Reqs : ErrorTextRead(r)
    \/ \E r \in Reqs : ReadFails(r, "invalid_json")
    \/ \E r \in Reqs, p \in ConcParsed : ReadParsed(r, p)
    \/ \E r \in Reqs : BackoffElapsed(r)
    \/ \E r \in Reqs : Deliver(r)
    \/ \E r \in Reqs : \E t \in timers[r] : StaleTimerFires(r, t)
    \/ Tick(CACHE_TTL - 1)

SpecConc == InitConc /\ [][NextConc]_vars

-----------------------------------------------------------------------------
(* The schema repair on its own: a parsed object is drawn, the repair of the *)
(* deployed handler revision is applied to it once.                          *)

InitNorm ==
    /\ handler \in Handlers
    /\ API_KEY = TRUE
    /\ clock = 0
    /\ ticks = 0
    /\ started = 0
    /\ cache = [k \in CacheKeys |-> NoEntry]
    /\ pc = [r \in Reqs |-> "idle"]
    /\ method = [r \in Reqs |-> "none"]
    /\ cancelled = [r \in Reqs |-> FALSE]
    /\ OutsideIdle
    /\ farmData = [r \in Reqs |-> NoBody]
    /\ attemptCount = [r \in Reqs |-> 0]
    /\ lastError = [r \in Reqs |-> "none"]
    /\ calls = [r \in Reqs |-> 0]
    /\ wakeAt = [r \in Reqs |-> 0]
    /\ deadline = [r \in Reqs |-> 0]
    /\ timers = [r \in Reqs |-> {}]
    /\ out = [r \in Reqs |-> NoResponse]
    /\ IsParsedObject(parsed, MaxCrops, MaxCats)
    /\ normalized = [state |-> "pending", categories |-> <<>>]

NormalizeStep ==
    /\ normalized.state = "pending"
    /\ LET n == Normalize(handler, parsed)
       IN  normalized' = [state |-> IF n.threw THEN "threw" ELSE "returned",
                          categories |-> n.categories]
    /\ UNCHANGED <<method, cancelled, timers, outside>>
    /\ UNCHANGED <<handler, API_KEY, clock, ticks, started, cache, pc, farmData,
                   attemptCount, lastError, calls, wakeAt, deadline, out, parsed>>

NextNorm == NormalizeStep

SpecNorm == InitNorm /\ [][NextNorm]_vars

-----------------------------------------------------------------------------
(* The water conversion of the hook.  getCropRecommendations rewrites the    *)
(* farmData object it is given before it builds its cache key and calls the  *)
(* function; a retry passes the same, already rewritten, object again.       *)

\* the revisions of the hook: src/src/hooks/useGeminiAI.ts also converts
\* strings of digits, src/unnamed/part_004 numbers only
Hooks == {"useGeminiAI.ts", "part_004"}

\* greatest inches value of the inputs
MaxInches == 26

\* how often the hook is called with the same object
MaxConversions == 2

\* JavaScript values of waterAvailability and waterAvailabilityInches: a
\* number, a string that is the decimal numeral of num, any other string, or
\* undefined
Num(n) == [type |-> "number", digits |-> FALSE, num |-> n, str |-> ""]

DigitString(n) == [type |-> "string", digits |-> TRUE, num |-> n, str |-> ""]

Text(t) == [type |-> "string", digits |-> FALSE, num |-> 0, str |-> t]

Undefined == [type |-> "undefined", digits |-> FALSE, num |-> 0, str |-> ""]

\* /^\d+$/.test(value), reached for values that are not numbers
OnlyDigits(value) == value.type = "string" /\ value.digits

\* Number(value) for the values that reach it
ToNumber(value) == value.num

\* the condition under which the hook converts
IsNumericWater(hook, value) ==
    IF hook = "useGeminiAI.ts"
    THEN value.type = "number" \/ OnlyDigits(value)
    ELSE value.type = "number"

DescriptiveTermInclusive(inches) ==
    IF inches <= 10 THEN "limited"
    ELSE IF inches <= 15 THEN "rainfed"
    ELSE IF inches <= 25 THEN "basic-irrigation"
    ELSE "full-irrigation"

\* the if / else if chain on inches
DescriptiveTerm(inches) ==
    IF inches < 10 THEN "limited"
    ELSE IF inches < 15 THEN "rainfed"
    ELSE IF inches < 25 THEN "basic-irrigation"
    ELSE "full-irrigation"

\* the farmData object as far as the conversion reads and writes it
Farm(waterAvailability, waterAvailabilityInches) ==
    [waterAvailability |-> waterAvailability,
     waterAvailabilityInches |-> waterAvailabilityInches]

\* the conversion at the start of getCropRecommendations
ConvertWater(hook, farm) ==
    IF IsNumericWater(hook, farm.waterAvailability)
    THEN LET inches == ToNumber(farm.waterAvailability)
         IN  Farm(Text(DescriptiveTerm(inches)), Num(inches))
    ELSE farm

\* the descriptive terms of the form, and a string that is neither a term nor
\* a string of digits
WaterTerms == {"limited", "rainfed", "basic-irrigation", "full-irrigation"}

WaterInputs ==
    {Num(n) : n \in (-1)..MaxInches} \cup {DigitString(n) : n \in 0..MaxInches}
        \cup {Text(t) : t \in WaterTerms \cup {"12.5"}}

InitWater ==
    /\ handler = "part_000"
    /\ API_KEY = TRUE
    /\ clock = 0
    /\ ticks = 0
    /\ started = 0
    /\ cache = [k \in CacheKeys |-> NoEntry]
    /\ pc = [r \in Reqs |-> "idle"]
    /\ method = [r \in Reqs |-> "none"]
    /\ cancelled = [r \in Reqs |-> FALSE]
    /\ farmData = [r \in Reqs |-> NoBody]
    /\ attemptCount = [r \in Reqs |-> 0]
    /\ lastError = [r \in Reqs |-> "none"]
    /\ calls = [r \in Reqs |-> 0]
    /\ wakeAt = [r \in Reqs |-> 0]
    /\ deadline = [r \in Reqs |-> 0]
    /\ timers = [r \in Reqs |-> {}]
    /\ out = [r \in Reqs |-> NoResponse]
    /\ parsed = ParsedNoCategories
    /\ normalized = NotNormalizing
    /\ \E h \in Hooks, w \in WaterInputs, i \in {Undefined, Num(MaxInches)} :
           client = [hook |-> h, given |-> Farm(w, i), farmData |-> Farm(w, i),
                     conversions |-> 0]
    /\ waterInInches = EmptyString
    /\ revision = "none"
    /\ HookFresh
    /\ StoreFresh

\* one call of getCropRecommendations(farmData) up to the cache key
ConvertStep ==
    /\ client.conversions < MaxConversions
    /\ client' = [client EXCEPT
                     !.farmData = ConvertWater(client.hook, client.farmData),
                     !.conversions = @ + 1]
    /\ UNCHANGED <<serverVars, waterInInches, hookVars, storeVars>>

\* !value for the values of waterAvailability
FalsyValue(value) ==
    \/ value.type = "undefined"
    \/ value.type = "number" /\ value.num = 0
    \/ value.type = "string" /\ ~value.digits /\ value.str = ""

\* the handler's waterInInches: the inches when the object carries a number,
\* else the range of the descriptive term, else the value as provided
WaterInInches(farm) ==
    IF farm.waterAvailabilityInches.type = "number"
    THEN [form |-> "inches per season", value |-> farm.waterAvailabilityInches]
    ELSE IF \E t \in WaterTerms : farm.waterAvailability = Text(t)
    THEN [form |-> "approximately", value |-> farm.waterAvailability]
    ELSE [form |-> "as provided by user", value |-> farm.waterAvailability]

\* the hook has invoked the function with its object; the handler passes the
\* required-field check and builds the prompt
BuildPrompt ==
    /\ client.conversions >= 1
    /\ waterInInches = EmptyString
    /\ ~FalsyValue(client.farmData.waterAvailability)
    /\ waterInInches' = WaterInInches(client.farmData)
    /\ UNCHANGED <<serverVars, client, hookVars, storeVars>>

NextWater ==
    \/ ConvertStep
    \/ BuildPrompt

SpecWater == InitWater /\ [][NextWater]_vars

-----------------------------------------------------------------------------
(* The hook useGeminiAI.  A call of getCropRecommendations runs without      *)
(* interruption up to its next await: up to the invocation of the edge       *)
(* function, and up to the end of a backoff wait.  A retry is the call       *)
(* getCropRecommendations(farmData) from inside the function: it runs in     *)
(* the closure of the render the first call was made from, so it reads the   *)
(* retryCount of that render; the calling activation returns the promise of  *)
(* the retry without awaiting it, so its finally block runs as soon as the   *)
(* retry has reached its first await.                                        *)

\* no server is looked at: the state of the serve handler stays as deployed
ServerIdle ==
    /\ handler = "part_000"
    /\ API_KEY = TRUE
    /\ clock = 0
    /\ ticks = 0
    /\ started = 0
    /\ cache = [k \in CacheKeys |-> NoEntry]
    /\ pc = [r \in Reqs |-> "idle"]
    /\ method = [r \in Reqs |-> "none"]
    /\ cancelled = [r \in Reqs |-> FALSE]
    /\ farmData = [r \in Reqs |-> NoBody]
    /\ attemptCount = [r \in Reqs |-> 0]
    /\ lastError = [r \in Reqs |-> "none"]
    /\ calls = [r \in Reqs |-> 0]
    /\ wakeAt = [r \in Reqs |-> 0]
    /\ deadline = [r \in Reqs |-> 0]
    /\ timers = [r \in Reqs |-> {}]
    /\ out = [r \in Reqs |-> NoResponse]
    /\ parsed = ParsedNoCategories
    /\ normalized = NotNormalizing

\* the revisions of the hook: src/src/hooks/useGeminiAI.ts, the hook of
\* src/unnamed/part_003, and the two hooks of src/unnamed/part_004 (the one
\* that starts at line 48 and the one that starts at line 325)
Revisions == {"useGeminiAI.ts", "part_003", "part_004", "part_004:325"}

\* const MAX_RETRIES
MAX_RETRIES(rev) == IF rev = "useGeminiAI.ts" THEN 3 ELSE 2

\* the revisions that keep an AbortController in abortControllerRef
HasController(rev) == rev \in {"part_003", "part_004"}

\* the revisions that keep a response cache
HasCache(rev) == rev \in {"part_003", "part_004"}

\* the revision that consults isMountedRef
ChecksMounted(rev) == rev = "part_004"

\* the Map a call reads and writes
MapOf(rev, c) == IF rev = "part_003" THEN c ELSE 0

\* how often one call may invoke the edge function in the model
MaxInvocations == 5

\* the objects the page passes to getCropRecommendations
CallFarms == {Farm(Num(12), Undefined), Farm(Text("rainfed"), Undefined)}

\* JSON.stringify(farmData): the members in the order of the object
responseKey(farm) == <<"waterAvailability", farm.waterAvailability,
                    "waterAvailabilityInches", farm.waterAvailabilityInches>>

\* abortControllerRef.current?.signal.aborted
RefAborted == abortControllerRef # NoController /\ abortControllerRef \in aborted

\* the controller an activation of call c created has been aborted
Superseded(c) ==
    /\ HasController(revision)
    /\ Controller(c, activation[c].invoked) \in aborted

InitHook ==
    /\ ServerIdle
    /\ client = NoClient
    /\ waterInInches = EmptyString
    /\ revision \in Revisions
    /\ HookFresh
    /\ StoreFresh

\* getCropRecommendations from its first statement to its first await (or to
\* its return on a cache hit), followed by the finally block of the
\* activation that made the call when the call is a retry
Enter(c, farm, captured, entry, retry) ==
    LET converted == ConvertWater(revision, farm)
        key == responseKey(converted)
        hit == HasCache(revision) /\ key \in responseCache[MapOf(revision, c)]
    IN  /\ loading' = ~(hit \/ retry)
        /\ hookError' = "null"
        /\ aborted' = IF HasController(revision) /\ abortControllerRef # NoController
                      THEN aborted \cup {abortControllerRef}
                      ELSE aborted
        /\ abortControllerRef' = IF HasController(revision)
                                 THEN Controller(c, entry)
                                 ELSE abortControllerRef
        /\ activation' = [activation EXCEPT ![c] =
               [at |-> IF hit THEN "returned" ELSE "invoking",
                farmData |-> converted,
                retryCount |-> captured,
                invoked |-> entry,
                delay |-> @.delay,
                result |-> IF hit THEN "data" ELSE "pending"]]
        /\ cropCategories' = IF hit /\ isMounted
                             THEN [call |-> c, key |-> key]
                             ELSE cropCategories
        /\ UNCHANGED <<revision, isMounted, retryCount, responseCache>>

\* the page calls getCropRecommendations(farm)
StartCall(c, farm) ==
    /\ activation[c].at = "idle"
    /\ isMounted
    /\ Enter(c, farm, retryCount, 1, FALSE)
    /\ UNCHANGED <<serverVars, client, waterInInches, storeVars>>

\* throw new Error(...) inside the inner try: the catch blocks and the finally
\* block of the activation
Fail(c) ==
    LET silent == CASE revision = "part_003" -> RefAborted
                    [] revision = "part_004" -> RefAborted \/ ~isMounted
                    [] OTHER -> FALSE
    IN  /\ hookError' = IF silent THEN hookError ELSE "failed"
        /\ loading' = IF silent THEN loading ELSE FALSE
        /\ activation' = [activation EXCEPT ![c].at = "returned",
                                            ![c].result = "null"]
        /\ UNCHANGED <<revision, isMounted, retryCount, abortControllerRef, aborted,
                       responseCache, cropCategories>>

\* the invocation returned data with categories: reset retryCount, store the
\* response in the cache, return it; the page displays what it gets
Succeed(c) ==
    LET key == responseKey(activation[c].farmData)
        map == MapOf(revision, c)
        finallyClears == CASE revision = "part_003" -> ~RefAborted
                           [] revision = "part_004" -> isMounted /\ ~RefAborted
                           [] OTHER -> TRUE
    IN  /\ retryCount' = IF ChecksMounted(revision) /\ ~isMounted
                         THEN retryCount
                         ELSE 0
        /\ responseCache' = IF HasCache(revision)
                            THEN [responseCache EXCEPT ![map] = @ \cup {key}]
                            ELSE responseCache
        /\ loading' = IF finallyClears THEN FALSE ELSE loading
        /\ activation' = [activation EXCEPT ![c].at = "returned",
                                            ![c].result = "data"]
        /\ cropCategories' = IF isMounted
                             THEN [call |-> c, key |-> key]
                             ELSE cropCategories
        /\ UNCHANGED <<revision, isMounted, hookError, abortControllerRef, aborted>>

\* if (retryCount < MAX_RETRIES): retryCount is the one of the closure
Retries(c) ==
    /\ activation[c].retryCount < MAX_RETRIES(revision)
    /\ ChecksMounted(revision) => isMounted

\* await supabase.functions.invoke(...) is over: with data, with an error, or
\* with anything that makes the inner try throw (data without categories, the
\* 30 second race of the second hook of part_004)
InvokeReturns(c, outcome) ==
    /\ activation[c].at = "invoking"
    /\ CASE outcome = "error" /\ Retries(c) ->
              /\ activation[c].invoked < MaxInvocations
              /\ retryCount' = retryCount + 1
              /\ activation' = [activation EXCEPT
                     ![c].at = "waiting",
                     ![c].delay = (2 ^ activation[c].retryCount) * 1000]
              /\ UNCHANGED <<revision, isMounted, loading, hookError,
                             abortControllerRef, aborted, responseCache,
                             cropCategories>>
         [] outcome = "data" -> Succeed(c)
         [] OTHER -> Fail(c)
    /\ UNCHANGED <<serverVars, client, waterInInches, storeVars>>

\* the backoff wait is over: retry unless the controller in the ref is aborted
\* (or the component unmounted), else throw
WaitOver(c) ==
    /\ activation[c].at = "waiting"
    /\ LET again == CASE revision = "part_003" -> ~RefAborted
                      [] revision = "part_004" -> ~RefAborted /\ isMounted
                      [] OTHER -> TRUE
       IN  IF again
           THEN Enter(c, activation[c].farmData, activation[c].retryCount,
                      activation[c].invoked + 1, TRUE)
           ELSE Fail(c)
    /\ UNCHANGED <<serverVars, client, waterInInches, storeVars>>

\* the component unmounts: the cleanup of the effect aborts the controller in
\* the ref (part_003, part_004) and clears the ref (part_004)
Unmount ==
    /\ isMounted
    /\ isMounted' = FALSE
    /\ aborted' = IF HasController(revision) /\ abortControllerRef # NoController
                  THEN aborted \cup {abortControllerRef}
                  ELSE aborted
    /\ abortControllerRef' = IF revision = "part_004"
                             THEN NoController
                             ELSE abortControllerRef
    /\ UNCHANGED <<revision, loading, hookError, retryCount, responseCache,
                   activation, cropCategories>>
    /\ UNCHANGED <<serverVars, client, waterInInches, storeVars>>

NextHook ==
    \/ \E c \in Calls, farm \in CallFarms : StartCall(c, farm)
    \/ \E c \in Calls, outcome \in {"data", "error", "throws"} : InvokeReturns(c, outcome)
    \/ \E c \in Calls : WaitOver(c)
    \/ Unmount

SpecHook == InitHook /\ [][NextHook]_vars

-----------------------------------------------------------------------------
(* The profile provider FarmDataProvider.  An operation sets the state; the  *)
(* render that follows runs the effect that saves the list, before the next  *)
(* operation.  A reload of the page mounts a new provider over the          *)
(* localStorage the old one has left.                                        *)

\* how many profiles are saved in a run
MaxProfiles == 3

\* the names a profile is saved or updated with
ProfileNames == {"north field", "south field"}

\* new Date() of the n-th profile, and what JSON.stringify makes of it
DateOf(n) == [type |-> "Date", time |-> n]

IsoString(date) == [type |-> "string", time |-> date.time]

\* the profile saveFarmProfile creates: id and createdAt are new
NewProfile(n, name) == [id |-> n, name |-> name, createdAt |-> DateOf(n)]

\* JSON.stringify(farmProfiles): a Date becomes its ISO string
Stringify(profiles) ==
    [i \in DOMAIN profiles |->
        [profiles[i] EXCEPT !.createdAt = IsoString(profiles[i].createdAt)]]

\* JSON.parse of a stored list: the list as written, createdAt stays a string
Parse(text) == text

\* the effect on [farmProfiles]: an empty list is not written
SaveEffect(profiles) ==
    IF Len(profiles) > 0
    THEN [present |-> TRUE, value |-> Stringify(profiles)]
    ELSE localStorage

\* the ids that have been given out: of the list and of the storage
UsedIds ==
    {farmProfiles[i].id : i \in DOMAIN farmProfiles}
        \cup {localStorage.value[i].id : i \in DOMAIN localStorage.value}

\* the first index of a sequence whose element has the greatest createdAt
\* (sort descending, element 0)
MostRecent(profiles) ==
    CHOOSE i \in DOMAIN profiles :
        \A j \in DOMAIN profiles :
            \/ profiles[j].createdAt.time < profiles[i].createdAt.time
            \/ profiles[j].createdAt.time = profiles[i].createdAt.time /\ i <= j

\* profiles.filter(profile => profile.id !== id)
RECURSIVE FilterOut(_, _)
FilterOut(profiles, id) ==
    IF profiles = <<>> THEN <<>>
    ELSE IF Head(profiles).id = id
    THEN FilterOut(Tail(profiles), id)
    ELSE <<Head(profiles)>> \o FilterOut(Tail(profiles), id)

InitStore ==
    /\ ServerIdle
    /\ client = NoClient
    /\ waterInInches = EmptyString
    /\ revision = "none"
    /\ HookFresh
    /\ StoreFresh

saveFarmProfile(name) ==
    /\ Cardinality(UsedIds) < MaxProfiles
    /\ LET id == CHOOSE n \in 1..MaxProfiles : n \notin UsedIds
           newProfile == NewProfile(id, name)
           updatedProfiles == Append(farmProfiles, newProfile)
       IN  /\ farmProfiles' = updatedProfiles
           /\ currentProfile' = newProfile
           /\ localStorage' = SaveEffect(updatedProfiles)
    /\ profilesLoading' = FALSE
    /\ UNCHANGED <<serverVars, client, waterInInches, hookVars>>

updateFarmProfile(id, name) ==
    /\ LET updatedProfiles ==
               [i \in DOMAIN farmProfiles |->
                   IF farmProfiles[i].id = id
                   THEN [farmProfiles[i] EXCEPT !.name = name]
                   ELSE farmProfiles[i]]
       IN  /\ farmProfiles' = updatedProfiles
           /\ currentProfile' =
                  IF currentProfile # NoProfile /\ currentProfile.id = id
                  THEN [currentProfile EXCEPT !.name = name]
                  ELSE currentProfile
           /\ localStorage' = SaveEffect(updatedProfiles)
    /\ profilesLoading' = FALSE
    /\ UNCHANGED <<serverVars, client, waterInInches, hookVars>>

deleteFarmProfile(id) ==
    /\ LET updatedProfiles == FilterOut(farmProfiles, id)
       IN  /\ farmProfiles' = updatedProfiles
           /\ currentProfile' =
                  IF currentProfile # NoProfile /\ currentProfile.id = id
                  THEN IF Len(updatedProfiles) > 0
                       THEN updatedProfiles[1]
                       ELSE NoProfile
                  ELSE currentProfile
           /\ localStorage' = SaveEffect(updatedProfiles)
    /\ profilesLoading' = FALSE
    /\ UNCHANGED <<serverVars, client, waterInInches, hookVars>>

\* the page is loaded again: the state starts from useState([]), the first
\* effect reads localStorage, the second writes the list that was read
Reload ==
    /\ LET loaded == IF localStorage.present
                     THEN Parse(localStorage.value)
                     ELSE <<>>
       IN  /\ farmProfiles' = loaded
           /\ currentProfile' = IF Len(loaded) > 0
                                THEN loaded[MostRecent(loaded)]
                                ELSE NoProfile
           /\ localStorage' = SaveEffect(loaded)
    /\ profilesLoading' = FALSE
    /\ UNCHANGED <<serverVars, client, waterInInches, hookVars>>

NextStore ==
    \/ \E name \in ProfileNames : saveFarmProfile(name)
    \/ \E id \in 1..MaxProfiles, name \in ProfileNames : updateFarmProfile(id, name)
    \/ \E id \in 1..MaxProfiles : deleteFarmProfile(id)
    \/ Reload

SpecStore == InitStore /\ [][NextStore]_vars

-----------------------------------------------------------------------------
(* Properties of the schema repair (checked under SpecNorm) *)

\* the indices of the crops of a list that are flagged as top pick
Flagged(crops) == {j \in DOMAIN crops : crops[j].isTopPick = "true"}

\* the crop list the repair works on: a missing crops field counts as empty
InputCrops(category) ==
    IF category.cropsKind = "list" THEN category.crops ELSE <<>>

Min(S) == CHOOSE x \in S : \A y \in S : x <= y

Max(S) == CHOOSE x \in S : \A y \in S : x >= y

\* the indices of the crops of a list whose score is the greatest of the list
MaxScored(crops) ==
    {j \in DOMAIN crops : \A k \in DOMAIN crops : crops[j].score >= crops[k].score}

AllScored(crops) == \A j \in DOMAIN crops : crops[j].score # NoScore

\* C2: after the repair returns, every category with a non-empty crop list has
\* exactly one crop with isTopPick = true, and every category with an empty
\* crop list has none.
C2_TopPickInvariant ==
    normalized.state = "returned" =>
        \A i \in DOMAIN normalized.categories :
            Cardinality(Flagged(normalized.categories[i].crops))
                = IF Len(normalized.categories[i].crops) > 0 THEN 1 ELSE 0

\* C2 witness: the repair returned for a category that arrived with two flagged
\* crops, and for one that arrived with crops and none flagged.
C2_Witness ==
    /\ normalized.state = "returned"
    /\ \E i \in DOMAIN parsed.categories :
           Cardinality(Flagged(InputCrops(parsed.categories[i]))) >= 2
    /\ Len(normalized.categories[1].crops) = MaxCrops

\* C3: when a category arrives with one or more flagged crops, the repair keeps
\* the flag on the first flagged crop, clears it on every later flagged crop
\* and leaves every unflagged crop (and every score) as it was.
C3_FirstFlaggedWins ==
    normalized.state = "returned" =>
        \A i \in DOMAIN parsed.categories :
            LET before == InputCrops(parsed.categories[i])
                after == normalized.categories[i].crops
            IN  Flagged(before) # {} =>
                    /\ Len(after) = Len(before)
                    /\ \A j \in DOMAIN before :
                        /\ after[j].score = before[j].score
                        /\ after[j].isTopPick =
                              IF j = Min(Flagged(before)) THEN "true"
                              ELSE IF j \in Flagged(before) THEN "false"
                              ELSE before[j].isTopPick

\* C3 witness: the repair returned for a category whose first crop is flagged
\* and whose second crop is flagged with a greater score (Tomato before Kale),
\* followed by a crop without the isTopPick field.
C3_Witness ==
    /\ normalized.state = "returned"
    /\ Len(parsed.categories) = 1
    /\ LET before == InputCrops(parsed.categories[1])
       IN  /\ Len(before) = 3
           /\ before[1].isTopPick = "true" /\ before[2].isTopPick = "true"
           /\ before[3].isTopPick = "absent"
           /\ JsGreater(before[2].score, before[1].score)
           /\ JsGreater(before[3].score, before[2].score) = FALSE

StandardTypes == {standardCategories[i] : i \in DOMAIN standardCategories}

\* C5: after the repair returns, the category types of the result are exactly
\* the seven standard categories, each present once.
C5_CategoryCompleteness ==
    normalized.state = "returned" =>
        /\ Len(normalized.categories) = Len(standardCategories)
        /\ {normalized.categories[i].type : i \in DOMAIN normalized.categories}
               = StandardTypes

-----------------------------------------------------------------------------
(* Properties of the serve handler (checked under Spec) *)

\* the request of invocation r passed the required-field check
PassedValidation(r) ==
    farmData[r].kind = "object" /\ ~MissingRequired(farmData[r])

\* the responses that carry a recommendation result
ResultKinds == {"fresh", "cached", "fallback"}

TypesOf(categories) == {categories[i].type : i \in DOMAIN categories}

\* the category lists a successful repair of a sample response yields
NormalizedSamples ==
    {Normalize(handler, p).categories :
        p \in {q \in SampleParsed : ~Normalize(handler, q).threw}}

\* C1: a request all of whose attempts failed has invoked the completion
\* endpoint exactly 3 times and returns the hardcoded fallback result as a
\* normal (status 200) response.
C1_RetryBound ==
    \A r \in Reqs :
        (pc[r] = "done" /\ attemptCount[r] = maxAttempts) =>
            /\ calls[r] = 3
            /\ out[r].status = 200
            /\ out[r].kind = "fallback"
            /\ out[r].data = FallbackCategories

\* C6: every result returned to the caller (fresh, cached or fallback) contains
\* all seven standard categories.
C6_AllCategoriesReturned ==
    \A r \in Reqs :
        (pc[r] = "done" /\ out[r].kind \in ResultKinds) =>
            StandardTypes \subseteq TypesOf(out[r].data)

\* C7: with the API key configured, a request that passed validation never
\* ends with an error response: it returns a fresh, cached or fallback result.
C7_UsableResult ==
    \A r \in Reqs :
        (API_KEY /\ pc[r] = "done" /\ PassedValidation(r)) =>
            out[r].status = 200 /\ out[r].kind \in ResultKinds

\* C8: when the request's key has an entry younger than the TTL at the cache
\* lookup, the handler returns exactly the stored data with status 200, has
\* called the completion endpoint zero times, enters no backoff, and leaves
\* the whole cache (value and timestamp of the entry) unchanged.
C8_CacheHitShortCircuit ==
    [][\A r \in Reqs :
         LET cacheKey == JSONstringify(farmData[r])
         IN  ( /\ pc[r] = "body" /\ pc'[r] # "body"
               /\ farmData[r].kind # "invalid"
               /\ cache[cacheKey].present
               /\ clock - cache[cacheKey].timestamp < CACHE_TTL )
             => /\ pc'[r] = "done"
                /\ out'[r] = [status |-> 200, kind |-> "cached",
                              data |-> cache[cacheKey].data, error |-> ""]
                /\ calls'[r] = 0 /\ attemptCount'[r] = 0 /\ wakeAt'[r] = 0
                /\ cache' = cache]_vars

\* C8 witness: a request was answered from the cache, some time after the
\* entry was written, with a non-empty stored result and no endpoint call.
C8_Witness ==
    \E r \in Reqs :
        /\ pc[r] = "done" /\ out[r].kind = "cached"
        /\ calls[r] = 0
        /\ Len(out[r].data) > 0
        /\ clock > cache[JSONstringify(farmData[r])].timestamp

\* C9 as stated: the lookup misses exactly when no entry exists for the key or
\* the entry's age is strictly greater than 24 hours (an entry of age exactly
\* 24 hours is still returned), and a hit returns the stored data.
C9_TtlBoundaryInclusive ==
    [][\A r \in Reqs :
         LET cacheKey == JSONstringify(farmData[r])
         IN  (pc[r] = "body" /\ pc'[r] # "body" /\ farmData[r].kind # "invalid")
             => /\ (out'[r].kind = "cached")
                      <=> ( /\ cache[cacheKey].present
                            /\ ~(clock - cache[cacheKey].timestamp > CACHE_TTL) )
                /\ out'[r].kind = "cached" => out'[r].data = cache[cacheKey].data]_vars

\* C9 amended: the lookup misses exactly when no entry exists for the key or
\* the entry's age is greater than or equal to 24 hours (an entry of age
\* exactly 24 hours is no longer returned, one of 24 hours less a millisecond
\* is), and a hit returns the stored data.
C9_TtlBoundaryExclusive ==
    [][\A r \in Reqs :
         LET cacheKey == JSONstringify(farmData[r])
         IN  (pc[r] = "body" /\ pc'[r] # "body" /\ farmData[r].kind # "invalid")
             => /\ (out'[r].kind = "cached")
                      <=> ( /\ cache[cacheKey].present
                            /\ ~(clock - cache[cacheKey].timestamp >= CACHE_TTL) )
                /\ out'[r].kind = "cached" => out'[r].data = cache[cacheKey].data]_vars

\* C9 witness: a lookup at entry age exactly 24 hours has missed: the first
\* attempt of the request was started at that very clock value.
C9_Witness ==
    \E r \in Reqs :
        /\ pc[r] = "fetching" /\ calls[r] = 1 /\ attemptCount[r] = 0
        /\ deadline[r] = clock + AbortAfter
        /\ cache[JSONstringify(farmData[r])].present
        /\ clock - cache[JSONstringify(farmData[r])].timestamp = CACHE_TTL

\* C10: when an attempt's response is read and repaired without failure, the
\* endpoint has been invoked exactly (failed attempts + 1) <= 3 times, the
\* repaired result is written to the cache under the request's key with the
\* current time (no other key changes), the same result is returned with
\* status 200, and a returned request makes no further call.
C10_SuccessPath ==
    [][\A r \in Reqs :
         LET cacheKey == JSONstringify(farmData[r])
         IN  /\ (pc[r] = "reading" /\ pc'[r] = "done" /\ out'[r].kind = "fresh")
                => /\ out'[r].status = 200
                   /\ attemptCount'[r] = attemptCount[r]
                   /\ out'[r].data \in NormalizedSamples
                   /\ calls'[r] = calls[r]
                   /\ calls[r] = attemptCount[r] + 1
                   /\ calls[r] <= maxAttempts
                   /\ cache'[cacheKey] = Entry(out'[r].data, clock)
                   /\ \A k \in CacheKeys \ {cacheKey} : cache'[k] = cache[k]
             /\ pc[r] = "done"
                => pc'[r] \in {"done", "idle"} /\ calls'[r] <= calls[r]]_vars

\* C10 witness: a request succeeded at its third attempt; its result is in the
\* cache under its key with the time of the write.
C10_Witness ==
    \E r \in Reqs :
        /\ pc[r] = "done" /\ out[r].kind = "fresh"
        /\ attemptCount[r] = 2 /\ calls[r] = 3
        /\ cache[JSONstringify(farmData[r])] = Entry(out[r].data, clock)
        /\ clock > 0

\* C11: no step of a request inside the attempt loop changes the cache unless
\* it returns a fresh result; in particular the step that returns the fallback
\* result leaves the cache as it was, and at that moment the request's key
\* still has no unexpired entry, so an identical request misses again.
C11_FallbackLeavesCache ==
    [][\A r \in Solo :
         LET cacheKey == JSONstringify(farmData[r])
         IN  /\ (pc[r] \in InLoop /\ out'[r].kind # "fresh") => cache' = cache
             /\ (pc[r] \in InLoop /\ out'[r].kind = "fallback")
                => /\ pc'[r] = "done"
                   /\ out'[r].data = FallbackCategories
                   /\ ~( /\ cache'[cacheKey].present
                         /\ clock' - cache'[cacheKey].timestamp < CACHE_TTL )]_vars

\* C11 witness: a request has returned the fallback result after three failed
\* attempts and two backoffs while the cache holds, under another key, the
\* entry an earlier request wrote, with the timestamp of that earlier write.
C11_Witness ==
    \E r \in Solo :
        /\ pc[r] = "done" /\ out[r].kind = "fallback"
        /\ attemptCount[r] = maxAttempts
        /\ ~cache[JSONstringify(farmData[r])].present
        /\ \E k \in CacheKeys :
               /\ cache[k].present /\ cache[k].timestamp = 0
               /\ Len(cache[k].data) > 0
        /\ clock >= Delay(1) + Delay(2)

\* what catch (attempt_error) can receive: fetch rejecting, the abort of the
\* attempt's timer, a non-ok status, and the failures of reading and repair
FailureClasses ==
    {"transport", "abort", "http_error"} \cup ReadFailures
        \cup {"missing_categories", "repair_threw"}

\* the awaits of one attempt
InAttempt == {"fetching", "errtext", "reading"}

\* C12: an attempt that ends without a fresh result, whatever its failure
\* class, raises the attempt count by exactly one and makes no call; while
\* fewer than 3 attempts are used the handler backs off and the end of the
\* backoff starts exactly one more call, after the third it returns; a request
\* never counts more than 3 calls of the completion endpoint.
C12_SharedAttemptBudget ==
    [][\A r \in Solo :
         /\ calls'[r] <= maxAttempts
         /\ (pc[r] \in InAttempt /\ pc'[r] \notin InAttempt /\ out'[r].kind # "fresh")
            => /\ lastError'[r] \in FailureClasses
               /\ attemptCount'[r] = attemptCount[r] + 1
               /\ calls'[r] = calls[r] /\ calls[r] = attemptCount'[r]
               /\ IF attemptCount'[r] < maxAttempts
                  THEN pc'[r] = "backoff" /\ out'[r] = out[r]
                  ELSE pc'[r] = "done"
         /\ (pc[r] = "backoff" /\ pc'[r] # "backoff")
            => /\ pc'[r] = "fetching"
               /\ attemptCount'[r] = attemptCount[r]
               /\ calls'[r] = calls[r] + 1]_vars

\* C12 witness: a request used up its budget: three calls, three counted
\* failures, the last one an exception thrown by the repair.
C12_Witness ==
    \E r \in Solo :
        /\ pc[r] = "done"
        /\ attemptCount[r] = maxAttempts /\ calls[r] = maxAttempts
        /\ lastError[r] = "repair_threw"
        /\ out[r].kind \in {"fallback", "exhausted_error"}

\* C13: the failure of attempt n (n = 1, 2) starts a wait that ends 2000 ms
\* (n = 1) or 4000 ms (n = 2) after the failure; the wait is not shortened,
\* the next call starts only once the clock has reached its end, and the third
\* failure returns in the same step without a wait.
C13_BackoffSchedule ==
    [][\A r \in Solo :
         /\ (pc[r] # "backoff" /\ pc'[r] = "backoff")
            => /\ attemptCount'[r] \in {1, 2}
               /\ wakeAt'[r] = clock + (IF attemptCount'[r] = 1 THEN 2000 ELSE 4000)
         /\ pc[r] = "backoff"
            => /\ wakeAt'[r] = wakeAt[r]
               /\ pc'[r] \in {"backoff", "fetching"}
               /\ pc'[r] = "fetching" => clock >= wakeAt[r]
         /\ (pc[r] \in InAttempt /\ attemptCount[r] = 2 /\ attemptCount'[r] = 3)
            => pc'[r] = "done" /\ wakeAt'[r] = wakeAt[r]]_vars

\* C13 witness: the second wait is running: two calls made, two failures
\* counted, one millisecond of the 4000 ms elapsed.
C13_Witness ==
    \E r \in Solo :
        /\ pc[r] = "backoff"
        /\ attemptCount[r] = 2 /\ calls[r] = 2
        /\ wakeAt[r] - clock = 3999
        /\ clock >= 2000

\* C14: a request whose parsed body lacks location, soil type or water
\* availability is answered with status 400 (missing fields) at the step that
\* follows the reading of the body, with no call of the completion endpoint
\* and the cache left as it was, whatever the cache holds.
C14_ValidationError ==
    [][\A r \in Solo :
         ( /\ pc[r] = "body" /\ pc'[r] # "body"
           /\ farmData[r].kind # "invalid"
           /\ MissingRequired(farmData[r]) )
         => /\ pc'[r] = "done"
            /\ out'[r].status = 400
            /\ out'[r].kind = "missing_fields"
            /\ calls'[r] = 0
            /\ cache' = cache]_vars

\* C15: without the API key, a POST is answered in the step that receives it
\* with status 500 and the configuration error; the body is never read, no
\* invocation reaches the cache lookup or calls the completion endpoint, and
\* the cache stays as it was.
C15_ConfigurationError ==
    [][~API_KEY =>
         /\ cache' = cache
         /\ \A r \in Solo :
              /\ pc'[r] \in {"idle", "done"}
              /\ farmData'[r] = NoBody
              /\ calls'[r] = 0
              /\ (pc[r] = "idle" /\ pc'[r] # "idle" /\ method'[r] = "POST")
                 => /\ pc'[r] = "done"
                    /\ out'[r] = [status |-> 500, kind |-> "config_error",
                                  data |-> <<>>, error |-> "API configuration error"]]_vars

\* C15 witness: without the API key a second POST has been answered with the
\* configuration error, some time after the first.
C15_Witness ==
    \E r \in Solo :
        /\ ~API_KEY
        /\ started = 2 /\ clock > 0
        /\ pc[r] = "done" /\ method[r] = "POST"
        /\ out[r].kind = "config_error" /\ out[r].status = 500

\* the field/value pairs of a serialized body, whatever their order
FieldValues(fields) == {fields[i] : i \in DOMAIN fields}

\* C19: a request whose body has the same field values as the body under
\* which an unexpired entry was written, in whatever order its fields appear,
\* is answered from the cache with the data of that entry.
C19_CanonicalFingerprint ==
    [][\A r \in Solo : \A k \in CacheKeys :
         ( /\ pc[r] = "body" /\ pc'[r] # "body"
           /\ farmData[r].kind = "object"
           /\ FieldValues(k) = FieldValues(farmData[r].fields)
           /\ cache[k].present
           /\ clock - cache[k].timestamp < CACHE_TTL )
         => /\ out'[r].kind = "cached"
            /\ out'[r].data = cache[k].data
            /\ calls'[r] = 0]_vars

-----------------------------------------------------------------------------
(* Properties of the serve handler with a cancelling caller (SpecCancel) *)

\* C16: once the caller has cancelled a request that is in flight or waiting
\* in backoff, the handler starts no further call of the completion endpoint,
\* the pending call does not go on to be read, nothing is written to the
\* cache, and the invocation ends with an outcome that is neither a fresh,
\* cached or fallback result nor an error response.
C16_Cancellation ==
    [][\A r \in Solo :
         cancelled[r] =>
             /\ calls'[r] <= calls[r]
             /\ pc'[r] \notin {"reading", "errtext"} \ {pc[r]}
             /\ cache' = cache
             /\ (pc[r] # "done" /\ pc'[r] = "done") => out'[r].kind = "cancelled"]_vars

-----------------------------------------------------------------------------
(* Properties of concurrent invocations (checked under SpecConc) *)

\* C17: in any interleaving of concurrent requests, the entry of a key is
\* written only while the key has no unexpired entry: an entry younger than
\* the TTL is never written again.
C17_SingleCacheWrite ==
    [][\A k \in CacheKeys :
         cache'[k] # cache[k]
            => ~(cache[k].present /\ clock - cache[k].timestamp < CACHE_TTL)]_vars

\* C18: concurrent requests with the identical key are not merged, and each
\* of them still ends with a result: an invocation that passed validation
\* returns a fresh, cached or fallback result with status 200, a fresh return
\* leaves its own result in the cache under the key with the time of the
\* write, and the cache changes at no other step, so that the entry is the
\* result of the request that wrote last.
C18_NoSingleFlight ==
    [][\A r \in Reqs :
         LET cacheKey == JSONstringify(farmData[r])
         IN  /\ (pc[r] # "done" /\ pc'[r] = "done" /\ PassedValidation(r))
                => out'[r].status = 200 /\ out'[r].kind \in ResultKinds
             /\ (pc[r] = "reading" /\ out'[r].kind = "fresh")
                => cache'[cacheKey] = Entry(out'[r].data, clock)
             /\ cache' # cache
                => \E q \in Reqs : pc[q] = "reading" /\ out'[q].kind = "fresh"]_vars

-----------------------------------------------------------------------------
(* Properties of the hook's water conversion (checked under SpecWater) *)

\* C20: once the hook has converted, a water availability given as a number N
\* has become limited for N < 10, rainfed for 10 <= N < 15, basic-irrigation
\* for 15 <= N < 25 and full-irrigation for N >= 25, with N kept as the inches
\* value; an object whose water availability was given as one of the four
\* descriptive terms is as it was given; and a further conversion changes
\* nothing.
C20_WaterMapping ==
    [][client'.conversions >= 1 =>
         LET given == client'.given.waterAvailability
             after == client'.farmData
         IN  /\ given.type = "number"
                => /\ after.waterAvailability.type = "string"
                   /\ (after.waterAvailability.str = "limited") <=> (given.num < 10)
                   /\ (after.waterAvailability.str = "rainfed")
                         <=> (10 <= given.num /\ given.num < 15)
                   /\ (after.waterAvailability.str = "basic-irrigation")
                         <=> (15 <= given.num /\ given.num < 25)
                   /\ (after.waterAvailability.str = "full-irrigation")
                         <=> (given.num >= 25)
                   /\ after.waterAvailabilityInches = Num(given.num)
             /\ (given.type = "string" /\ given.str \in WaterTerms)
                => after = client'.given
             /\ client.conversions >= 1 => client'.farmData = client.farmData]_vars

\* C20 witness: the hook of part_004 was called twice with an object whose
\* water availability was the number 14; it now reads rainfed with 14 inches.
C20_Witness ==
    /\ client.hook = "part_004"
    /\ client.conversions = 2
    /\ client.given.waterAvailability = Num(14)
    /\ client.farmData = Farm(Text("rainfed"), Num(14))

\* C21: when the handler has built the prompt, the water availability of the
\* object it was built from is one of the four descriptive terms, whatever
\* value the caller gave to the hook.
C21_WaterCategoryInvariant ==
    waterInInches # EmptyString =>
        \E t \in WaterTerms : client.farmData.waterAvailability = Text(t)

\* C22: for every parsed object whose categories field is a list, whatever
\* its elements look like, the repair returns a result and throws nothing.
C22_NormalizerTotality ==
    (parsed.categoriesKind = "list" /\ normalized.state # "pending")
        => normalized.state = "returned"

\* C24: no step removes a cache key: a key that has an entry keeps one; an
\* entry changes only when a request with that key returns a fresh result,
\* which then replaces it; and a lookup that finds an entry of age 24 hours
\* or more is a miss that leaves the entry stored.
C24_PassiveExpiry ==
    [][/\ \A k \in CacheKeys :
            /\ cache[k].present => cache'[k].present
            /\ cache'[k] # cache[k]
               => \E r \in Solo :
                      /\ pc[r] = "reading" /\ out'[r].kind = "fresh"
                      /\ JSONstringify(farmData[r]) = k
                      /\ cache'[k] = Entry(out'[r].data, clock)
       /\ \A r \in Solo :
            LET cacheKey == JSONstringify(farmData[r])
            IN  ( /\ pc[r] = "body" /\ pc'[r] # "body"
                  /\ farmData[r].kind # "invalid"
                  /\ cache[cacheKey].present
                  /\ clock - cache[cacheKey].timestamp >= CACHE_TTL )
                => out'[r].kind # "cached" /\ cache' = cache]_vars

\* C24 witness: an entry written at time 0 expired, stayed stored, was missed
\* by a request with its key, and has been replaced by that request's result.
C24_Witness ==
    \E r \in Solo :
        /\ pc[r] = "done" /\ out[r].kind = "fresh"
        /\ cache[JSONstringify(farmData[r])] = Entry(out[r].data, CACHE_TTL)
        /\ clock = CACHE_TTL
        /\ started = 2

\* the keys of the bodies that pass the required-field check
ValidKeys ==
    {JSONstringify(b) : b \in {x \in Bodies : x.kind = "object" /\ ~MissingRequired(x)}}

\* C25: in every state, every cache entry holds a category list that a
\* successful repair of a model response produced, with exactly one flagged
\* crop in each non-empty category and none in an empty one; it is never the
\* fallback data or an empty (error) body; and its key is the serialization
\* of a body that passes the required-field check.
C25_CacheContent ==
    \A k \in CacheKeys :
        cache[k].present =>
            /\ cache[k].data \in NormalizedSamples
            /\ \A i \in DOMAIN cache[k].data :
                   Cardinality(Flagged(cache[k].data[i].crops))
                       = IF Len(cache[k].data[i].crops) > 0 THEN 1 ELSE 0
            /\ cache[k].data # FallbackCategories
            /\ cache[k].data # <<>>
            /\ k \in ValidKeys

\* C25 witness: the cache holds two entries, one of them written at the third
\* attempt of its request, the other holding a category that arrived with
\* two flagged crops.
C25_Witness ==
    /\ \A k \in ValidKeys : cache[k].present
    /\ \E r \in Solo : pc[r] = "done" /\ out[r].kind = "fresh" /\ attemptCount[r] = 2
    /\ \E k \in ValidKeys : \E i \in DOMAIN cache[k].data :
           Len(cache[k].data[i].crops) = 2

-----------------------------------------------------------------------------
(* Properties of the attempt timer (checked under Spec) *)

\* C23: an attempt that is still in flight after the 25 seconds of its timer,
\* waiting for the fetch or reading the response body, does nothing but end
\* as one failed attempt caused by the abort: the attempt count rises by one
\* and the handler backs off or, after the third attempt, returns.
C23_PerAttemptTimeout ==
    [][\A r \in Solo :
         (pc[r] \in InAttempt /\ clock > deadline[r] /\ pc'[r] # pc[r])
         => /\ lastError'[r] = "abort"
            /\ attemptCount'[r] = attemptCount[r] + 1
            /\ pc'[r] \in {"backoff", "done"}
            /\ out'[r].kind # "fresh"]_vars

\* the timers of invocation r that fire in a step: they leave the armed set
\* in a step that is neither the clearTimeout after fetch resolved nor the
\* recycling of the slot
Fired(r) ==
    IF \/ pc[r] = "fetching" /\ pc'[r] \in {"reading", "errtext"}
       \/ pc[r] = "done" /\ pc'[r] = "idle"
    THEN {}
    ELSE timers[r] \ timers'[r]

\* C26: a timer fires only once its 25 seconds are over; the timer of the
\* attempt whose fetch is pending ends that attempt as one failure with the
\* abort as its error; a timer of an earlier attempt changes nothing of the
\* invocation (its position, counters, error, response) and nothing of the
\* cache; and an attempt is ended by an abort only through its own timer.
C26_TimerIsolation ==
    [][\A r \in Solo :
         /\ \A t \in Fired(r) :
              /\ clock >= t.at
              /\ IF pc[r] = "fetching" /\ t.attempt = calls[r]
                 THEN /\ lastError'[r] = "abort"
                      /\ attemptCount'[r] = attemptCount[r] + 1
                 ELSE /\ t.attempt < calls[r] \/ pc[r] # "fetching"
                      /\ pc'[r] = pc[r] /\ out'[r] = out[r]
                      /\ attemptCount'[r] = attemptCount[r]
                      /\ lastError'[r] = lastError[r]
                      /\ calls'[r] = calls[r] /\ wakeAt'[r] = wakeAt[r]
                      /\ cache' = cache
         /\ (lastError'[r] = "abort" /\ attemptCount'[r] # attemptCount[r])
            => /\ pc[r] = "fetching"
               /\ Fired(r) = {Timer(calls[r], deadline[r])}]_vars

\* C26 witness: the fetch of attempt 1 rejected and left its timer armed; the
\* timer fired while the fetch of attempt 2 was pending, which is still
\* pending with its own timer as the only one armed.
C26_Witness ==
    \E r \in Solo :
        /\ pc[r] = "fetching" /\ calls[r] = 2 /\ attemptCount[r] = 1
        /\ lastError[r] = "transport"
        /\ timers[r] = {Timer(2, deadline[r])}
        /\ clock < deadline[r]

-----------------------------------------------------------------------------
(* Properties of the hook (checked under SpecHook) *)

\* call c is suspended at an await of getCropRecommendations
InFlight(c) == activation[c].at \in {"invoking", "waiting"}

\* C27: a call of getCropRecommendations that no other call overlaps invokes
\* the edge function at most MAX_RETRIES + 1 times, and the wait that follows
\* its k-th invocation is 2^(k-1) * 1000 ms.
C27_ClientRetryBound ==
    \A c \in Calls :
        (\A d \in Calls \ {c} : activation[d].at = "idle")
        => /\ activation[c].invoked <= MAX_RETRIES(revision) + 1
           /\ activation[c].at = "waiting"
              => activation[c].delay = (2 ^ (activation[c].invoked - 1)) * 1000

\* C28: while the component is mounted, a call whose controller a later entry
\* of getCropRecommendations has aborted returns null, writes nothing to the
\* response cache and leaves the displayed result as it is.
C28_SupersededRequest ==
    [][\A c \in Calls :
         (isMounted /\ Superseded(c) /\ InFlight(c)
            /\ activation'[c].at = "returned")
         => /\ activation'[c].result = "null"
            /\ responseCache' = responseCache
            /\ cropCategories' = cropCategories]_vars

\* C29: while the component is mounted, loading is true exactly when some call
\* of getCropRecommendations is in flight, a backoff wait included.
C29_LoadingFlag ==
    isMounted => (loading <=> \E c \in Calls : InFlight(c))

-----------------------------------------------------------------------------
(* Properties of the profile provider (checked under SpecStore) *)

\* the list a reload of the page would read
Persisted == IF localStorage.present THEN localStorage.value ELSE <<>>

\* C30: after every operation the list in localStorage is the serialization
\* of the list in memory, so a deleted profile is not in the list a reload
\* reads.
C30_ProfilePersistence ==
    Persisted = Stringify(farmProfiles)

====
